---- MODULE Spec2Model ----
(***************************************************************************)
(* A model of the flags package (src/flags.go): the command tree, the      *)
(* option registry, the token router, the value codec and the interceptor  *)
(* chain.                                                                  *)
(*                                                                         *)
(* Strings are sequences of one-character strings, so that prefix tests,   *)
(* cuts and splits are computed as the code computes them.  Pointers are   *)
(* small integers: a node is its index in nodes, an option is its index    *)
(* in params, a destination pointer is a key of mem.                       *)
(***************************************************************************)
EXTENDS Integers, Sequences, FiniteSets, TLC

VARIABLES
    nodes,      \* every FlagSet ever built; nodes[1] is the one New returned
    params,     \* every *param ever built by addVar
    paramOf,    \* the paramOf map, one map shared by the whole tree
    mem,        \* the caller's destination variables, by pointer
    nmw,        \* interceptors (Middleware values) handed to the package so far
    nh,         \* terminal handlers handed to Handle so far
    pc,         \* where the program is: idle, parse, call, ret, done, panic
    args,       \* arguments.args of the running parse
    idx,        \* arguments.idx of the running parse
    cur,        \* the FlagSet whose _parse is running / that Run got back
    err,        \* the error Run returns
    ctx,        \* the command stored in the context handed to the next layer
    depth,      \* layers of the composed handler entered so far
    stack,      \* interceptors entered and not yet returned, outermost first
    trace       \* what ran, in order (observation only)

vars == <<nodes, params, paramOf, mem, nmw, nh, pc, args, idx, cur, err, ctx,
          depth, stack, trace>>

treeVars == <<nodes, params, paramOf, mem, nmw, nh>>
runVars == <<pc, args, idx, cur, err, ctx, depth, stack, trace>>

----------------------------------------------------------------------------
(* Bounds of the model.                                                    *)

\* SpecChain: registration calls a program makes before it calls Run (each
\* interceptor passed counting as one more), and tokens handed to Run
MaxSize == 4
MaxArgs == 2
\* the specifications with options: registration calls, and tokens of a Run
\* on one option (SpecReg has two options and runs on MaxArgs tokens)
MaxRegs == 4
MaxToks == 3

----------------------------------------------------------------------------
(* strings                                                                 *)

HasPrefix(s, p) ==
    /\ Len(p) <= Len(s)
    /\ SubSeq(s, 1, Len(p)) = p

Contains(list, s) == \E i \in 1..Len(list) : list[i] = s

Dash == <<"-">>
DashDash == <<"-", "-">>

----------------------------------------------------------------------------
(* FlagSet                                                                 *)

NoNode == 0

\* A nil Handler.  layers are the closures chain built, outermost first;
\* h is the terminal handler.  extra and seen are bookkeeping for the
\* properties: the interceptors passed to that Handle call, and how many
\* interceptors had been registered when it was made.
NoFn == [set |-> FALSE, layers |-> <<>>, h |-> 0, extra |-> <<>>, seen |-> 0]

\* born is bookkeeping for the properties: how many options had been
\* registered, on any node, when the node was built.
FlagSet(name, ps, mws, parent, stmt) ==
    [name |-> name, aliases |-> <<>>, params |-> ps, cmds |-> <<>>,
     fn |-> NoFn, mws |-> mws, parent |-> parent, stmt |-> stmt,
     born |-> Len(params)]

RootName == <<"r">>

New == FlagSet(RootName, <<>>, <<>>, NoNode, NoNode)

NodeIds == 1..Len(nodes)

\* what the program has registered so far
Size == (Len(nodes) - 1) + nmw + nh + Len(params)

\* the next k interceptor values, each one distinct from all earlier ones
Fresh(k) == [i \in 1..k |-> nmw + i]

Use(f, k) ==
    /\ pc = "idle"
    /\ nodes' = [nodes EXCEPT ![f].mws = @ \o Fresh(k)]
    /\ nmw' = nmw + k
    /\ UNCHANGED <<params, paramOf, mem, nh>>
    /\ UNCHANGED runVars

\* chain wraps h in one closure per element of a list of length k; the
\* closure of position n runs fs.mws[n] when it is called.
chain(fs, k, h) ==
    [h EXCEPT !.layers = [n \in 1..k |-> [fs |-> fs, n |-> n]] \o @]

RECURSIVE chainUp(_, _)
chainUp(f, h) ==
    IF f = NoNode THEN h
    ELSE chainUp(nodes[f].parent, chain(f, Len(nodes[f].mws), h))

composed(fs, k) ==
    chainUp(fs, chain(fs, k,
        [set |-> TRUE, layers |-> <<>>, h |-> nh + 1,
         extra |-> Fresh(k), seen |-> nmw]))

Handle(f, k) ==
    /\ pc = "idle"
    /\ nodes' = [nodes EXCEPT ![f].fn = composed(f, k)]
    /\ nmw' = nmw + k
    /\ nh' = nh + 1
    /\ UNCHANGED <<params, paramOf, mem>>
    /\ UNCHANGED runVars

\* a branch that would start with no option at all
inheritedNone(f) == <<>>

\* the copy of fs.params a new child or statement scope starts with
inherited(f) == nodes[f].params

Stmt(f, k) ==
    /\ pc = "idle"
    /\ LET s == FlagSet(<<>>, inherited(f), Fresh(k), f,
                        IF nodes[f].stmt # NoNode THEN nodes[f].stmt ELSE f)
       IN nodes' = Append(nodes, s)
    /\ nmw' = nmw + k
    /\ UNCHANGED <<params, paramOf, mem, nh>>
    /\ UNCHANGED runVars

\* the duplicate test of Cmd and Alias
duplicated(f, name) ==
    \E i \in 1..Len(nodes[f].cmds) :
        \/ nodes[nodes[f].cmds[i]].name = name
        \/ Contains(nodes[f].aliases, name)

Cmd(f, name, k) ==
    /\ pc = "idle"
    /\ name # <<>>
    /\ ~HasPrefix(name, Dash)
    /\ ~duplicated(f, name)
    /\ LET cmd == FlagSet(name, inherited(f), Fresh(k), f, NoNode)
           c == Len(nodes) + 1
           to == IF nodes[f].stmt # NoNode THEN nodes[f].stmt ELSE f
       IN nodes' = [Append(nodes, cmd) EXCEPT ![to].cmds = Append(@, c)]
    /\ nmw' = nmw + k
    /\ UNCHANGED <<params, paramOf, mem, nh>>
    /\ UNCHANGED runVars

\* one alias of the list given to Alias
Alias(f, alias) ==
    /\ pc = "idle"
    /\ alias # <<>>
    /\ ~HasPrefix(alias, Dash)
    /\ ~duplicated(f, alias)
    /\ nodes' = [nodes EXCEPT ![f].aliases = Append(@, alias)]
    /\ UNCHANGED <<params, paramOf, mem, nmw, nh>>
    /\ UNCHANGED runVars

\* the names from the root down to f, unnamed scopes left out
RECURSIVE fullName(_)
fullName(f) ==
    IF f = NoNode THEN <<>>
    ELSE fullName(nodes[f].parent)
         \o (IF nodes[f].name # <<>> THEN <<nodes[f].name>> ELSE <<>>)

\* what the usage text of f is made from: its full name, the options it
\* lists (none while f has no handler) and the commands it lists
Usage(f) ==
    [name |-> fullName(f),
     options |-> IF nodes[f].fn.set THEN nodes[f].params ELSE <<>>,
     cmds |-> nodes[f].cmds]

----------------------------------------------------------------------------
(* Value codec.  A shape is the type a destination pointer points to:      *)
(*   [k |-> "int", w |-> 8 or 64, signed |-> BOOLEAN],  [k |-> "string"],  *)
(*   [k |-> "bool"],  [k |-> "slice", e |-> shape],                        *)
(*   [k |-> "map", key |-> shape, v |-> shape].                            *)
(* An int is an Int, a string a sequence of characters, a slice a          *)
(* sequence (nil is <<>>), a map a function (nil is <<>>).                 *)

IntT(w) == [k |-> "int", w |-> w, signed |-> TRUE]
UintT(w) == [k |-> "int", w |-> w, signed |-> FALSE]
StringT == [k |-> "string"]
BoolT == [k |-> "bool"]
SliceT(e) == [k |-> "slice", e |-> e]
MapT(key, v) == [k |-> "map", key |-> key, v |-> v]

Zero(t) ==
    CASE t.k = "int" -> 0
      [] t.k = "bool" -> FALSE
      [] OTHER -> <<>>

\* errors, by kind; NoErr is a nil error
NoErr == "nil"
ErrHelp == "help"
ErrNoExecFunc == "no exec func"
ErrNoInputValue == "no input value"
ErrUnknownOption == "unknown option"
ErrUnknownSubCmd == "unknown sub command"
ErrSyntax == "invalid syntax"
ErrOverflow == "overflowed"
ErrBool == "invalid bool value"
ErrKeyValue == "parse key/value"

\* the separators addVar gives an option when no Options override them
Sep1 == ","
Sep2 == ":"

Digits == <<"0", "1", "2", "3", "4", "5", "6", "7", "8", "9">>

IsDigit(c) == \E d \in 1..Len(Digits) : Digits[d] = c

DigitVal(c) == (CHOOSE d \in 1..Len(Digits) : Digits[d] = c) - 1

AllDigits(s) == s # <<>> /\ \A i \in 1..Len(s) : IsDigit(s[i])

\* A 64-bit integer is its eight bytes, the lowest first, in two's
\* complement: strconv parses into 64 bits, reflect's SetInt and SetUint
\* keep the low bytes the destination has room for, and Int and Uint read
\* them back as 64 bits.
ByteBase == 256
ZeroBytes == <<0, 0, 0, 0, 0, 0, 0, 0>>

\* v * m + c from byte n on, with the carry out of the highest byte
RECURSIVE MulAdd(_, _, _, _)
MulAdd(v, m, c, n) ==
    IF n > Len(v) THEN [v |-> v, carry |-> c]
    ELSE LET x == v[n] * m + c
         IN MulAdd([v EXCEPT ![n] = x % ByteBase], m, x \div ByteBase, n + 1)

\* one more digit d after the value acc: r is acc * 10 + d
Carried(acc, r) == [v |-> r.v, over |-> acc.over \/ r.carry # 0]
AddDigit(acc, d) == Carried(acc, MulAdd(acc.v, Len(Digits), DigitVal(d), 1))

\* the digits of s from position n on, after the value acc; the loop ends
\* at the first digit that does not fit
RECURSIVE Accumulate(_, _, _)
Accumulate(s, n, acc) ==
    IF n > Len(s) \/ acc.over THEN acc
    ELSE Accumulate(s, n + 1, AddDigit(acc, s[n]))

\* the value of a string of digits, and whether it needs more than 64 bits
Magnitude(s) == Accumulate(s, 1, [v |-> ZeroBytes, over |-> FALSE])

Invert(v) == [n \in 1..Len(v) |-> (ByteBase - 1) - v[n]]
Negate(v) == MulAdd(Invert(v), 1, 1, 1).v
TopBit(v) == v[Len(v)] >= ByteBase \div 2

\* the integer of the checker for eight bytes, where there is one (below
\* 2^31 in size); a larger value stays the eight bytes it is
RECURSIVE Unsigned(_)
Unsigned(v) == IF v = <<>> THEN 0 ELSE v[1] + ByteBase * Unsigned(Tail(v))

Small(v) == ~TopBit(SubSeq(v, 1, 4)) /\ SubSeq(v, 5, 8) = <<0, 0, 0, 0>>

Number(v, signed) ==
    IF signed /\ TopBit(v)
    THEN IF Small(Invert(v)) THEN (0 - 1) - Unsigned(Invert(v)) ELSE v
    ELSE IF Small(v) THEN Unsigned(v) ELSE v

\* what strconv gives: an error, or the eight bytes v and the value i
NoNumber == [ok |-> FALSE, v |-> ZeroBytes, i |-> 0]
Parsed64(v, signed) == [ok |-> TRUE, v |-> v, i |-> Number(v, signed)]

\* the range test of strconv on the magnitude m of a text with sign neg
range64(m, neg, signed) ==
    IF m.over \/ (signed /\ TopBit(m.v) /\ ~(neg /\ m.v = Negate(m.v)))
    THEN NoNumber
    ELSE Parsed64(IF neg THEN Negate(m.v) ELSE m.v, signed)

\* strconv.ParseInt(s, 10, 64): v is the eight bytes and i the value
ParseInt(s) ==
    LET signed == s # <<>> /\ s[1] \in {"+", "-"}
        body == IF signed THEN Tail(s) ELSE s
    IN IF ~AllDigits(body) THEN NoNumber
       ELSE range64(Magnitude(body), signed /\ s[1] = "-", TRUE)

\* strconv.ParseUint(s, 10, 64)
ParseUint(s) ==
    IF ~AllDigits(s) THEN NoNumber ELSE range64(Magnitude(s), FALSE, FALSE)

\* a destination that would have room for every 64-bit value
SetIntWide(v, t) == v

\* what reflect's SetInt / SetUint leave in a destination of width t.w
SetInt(v, t) == SubSeq(v, 1, t.w \div 8)

\* what reflect's Int / Uint read back from a destination of width t.w
IntOf(b, t) ==
    [n \in 1..Len(ZeroBytes) |->
        IF n <= Len(b) THEN b[n]
        ELSE IF t.signed /\ TopBit(b) THEN ByteBase - 1 ELSE 0]

RECURSIVE Split(_, _)
Split(s, sep) ==
    IF \A i \in 1..Len(s) : s[i] # sep THEN <<s>>
    ELSE LET i == CHOOSE j \in 1..Len(s) :
                      s[j] = sep /\ \A q \in 1..(j - 1) : s[q] # sep
         IN <<SubSeq(s, 1, i - 1)>> \o Split(SubSeq(s, i + 1, Len(s)), sep)

True == <<"t", "r", "u", "e">>
False == <<"f", "a", "l", "s", "e">>

\* arguments
newArgs(list, i) == [args |-> list, idx |-> i, align |-> FALSE]
newArg(arg) == [args |-> <<arg>>, idx |-> 0, align |-> TRUE]
end(a) == a.idx >= Len(a.args)
next(a) == IF end(a) THEN <<>> ELSE a.args[a.idx + 1]
\* a cursor whose read moves on at its end too
advancePast(a) == a.idx + 1
advance(a) == IF end(a) THEN a.idx ELSE a.idx + 1

Res(val, i, e) == [val |-> val, idx |-> i, err |-> e]

\* r is what strconv gave: val.SetInt(i) and the test val.Int() != i, on
\* the eight bytes parsed and the eight bytes read back
setInts(t, old, a, r) ==
    IF ~r.ok THEN Res(old, advance(a), ErrSyntax)
    ELSE LET back == IntOf(SetInt(r.v, t), t)
         IN Res(Number(back, t.signed), advance(a),
                IF back # r.v THEN ErrOverflow ELSE NoErr)

_parseInts(t, old, a) ==
    IF end(a) THEN Res(old, a.idx, ErrNoInputValue)
    ELSE setInts(t, old, a,
                 IF t.signed THEN ParseInt(next(a)) ELSE ParseUint(next(a)))

\* a decoder that would read a literal in every mode
_parseBoolLiteral(old, a) ==
    IF next(a) = True THEN Res(TRUE, advance(a), NoErr)
    ELSE IF next(a) = False THEN Res(FALSE, advance(a), NoErr)
    ELSE Res(old, advance(a), ErrBool)

_parseBool(old, a) ==
    IF ~a.align THEN Res(TRUE, a.idx, NoErr)
    ELSE IF next(a) = True THEN Res(TRUE, advance(a), NoErr)
    ELSE IF next(a) = False THEN Res(FALSE, advance(a), NoErr)
    ELSE Res(old, advance(a), ErrBool)

_parseString(old, a) ==
    IF end(a) THEN Res(old, a.idx, ErrNoInputValue)
    ELSE Res(next(a), advance(a), NoErr)

RECURSIVE _parseParam(_, _, _)
RECURSIVE _parseSlice(_, _, _)
RECURSIVE _parseSliceAlign(_, _, _)
RECURSIVE sliceElems(_, _, _, _)
RECURSIVE _parseMap(_, _, _)
RECURSIVE mapPairs(_, _, _, _)

_parseParam(t, old, a) ==
    CASE t.k = "int" -> _parseInts(t, old, a)
      [] t.k = "bool" -> _parseBool(old, a)
      [] t.k = "string" -> _parseString(old, a)
      [] t.k = "slice" ->
            IF a.align THEN _parseSliceAlign(t, old, a) ELSE _parseSlice(t, old, a)
      [] t.k = "map" -> _parseMap(t, old, a)

\* one element is decoded into a fresh variable and appended
_parseSlice(t, old, a) ==
    IF end(a) THEN Res(old, a.idx, ErrNoInputValue)
    ELSE LET r == _parseParam(t.e, Zero(t.e), a)
         IN IF r.err # NoErr THEN Res(old, r.idx, r.err)
            ELSE Res(Append(old, r.val), r.idx, NoErr)

\* the loop of _parseSliceAlign over the pieces from position i on
sliceElems(t, val, pieces, i) ==
    IF i > Len(pieces) THEN [val |-> val, err |-> NoErr]
    ELSE LET r == _parseParam(t.e, Zero(t.e), newArg(pieces[i]))
         IN IF r.err # NoErr THEN [val |-> val, err |-> r.err]
            ELSE sliceElems(t, Append(val, r.val), pieces, i + 1)

_parseSliceAlign(t, old, a) ==
    IF end(a) THEN Res(old, a.idx, ErrNoInputValue)
    ELSE IF t.e.k = "map"
    THEN LET r == _parseSlice(t, old, newArgs(<<next(a)>>, 0))
         IN Res(r.val, advance(a), r.err)
    ELSE LET r == sliceElems(t, old, Split(next(a), Sep1), 1)
         IN Res(r.val, advance(a), r.err)

\* m with key k set to v; a nil map is made first
SetMapIndex(m, k, v) ==
    [x \in DOMAIN m \cup {k} |-> IF x = k THEN v ELSE m[x]]

\* the loop of _parseMap over the pairs from position i on
mapPairs(t, val, pairs, i) ==
    IF i > Len(pairs) THEN [val |-> val, err |-> NoErr]
    ELSE LET kv == Split(pairs[i], Sep2)
         IN IF Len(kv) # 2 THEN [val |-> val, err |-> ErrKeyValue]
            ELSE LET k == _parseParam(t.key, Zero(t.key), newArgs(<<kv[1]>>, 0))
                     v == _parseParam(t.v, Zero(t.v), newArgs(<<kv[2]>>, 0))
                 IN IF k.err # NoErr THEN [val |-> val, err |-> k.err]
                    ELSE IF v.err # NoErr THEN [val |-> val, err |-> v.err]
                    ELSE IF t.v.k = "slice" /\ k.val \in DOMAIN val
                    THEN mapPairs(t, SetMapIndex(val, k.val, val[k.val] \o v.val),
                                  pairs, i + 1)
                    ELSE mapPairs(t, SetMapIndex(val, k.val, v.val), pairs, i + 1)

_parseMap(t, old, a) ==
    IF end(a) THEN Res(old, a.idx, ErrNoInputValue)
    ELSE IF next(a) = <<>> THEN Res(old, advance(a), NoErr)
    ELSE LET r == mapPairs(t, old, Split(next(a), Sep1), 1)
         IN Res(r.val, advance(a), r.err)

----------------------------------------------------------------------------
(* Option registry.  An option declaration o is one call of a registration *)
(* method: [ptr, short, long, t, dft, zero, init], where short is <<>> for *)
(* NoShort, dft is [has, v] (has = FALSE for a nil default), zero is       *)
(* WithZeroDefault and init is what the caller's variable holds.           *)
(* A param has two more fields than the code's: shared, which holds when   *)
(* the destination map is the very map object of the default (setDft       *)
(* stores the map and a map is a reference), and owner, the node addVar    *)
(* was called on (bookkeeping for the properties).                         *)

NoDft == [has |-> FALSE, v |-> 0]
Dft(v) == [has |-> TRUE, v |-> v]

Lower == <<"a", "b", "c", "d", "e", "f", "g", "h", "i", "j", "k", "l", "m",
           "n", "o", "p", "q", "r", "s", "t", "u", "v", "w", "x", "y", "z">>
Upper == <<"A", "B", "C", "D", "E", "F", "G", "H", "I", "J", "K", "L", "M",
           "N", "O", "P", "Q", "R", "S", "T", "U", "V", "W", "X", "Y", "Z">>
Symbols == <<"-", "_", ".", ":", "+", "/", "@", "~", "%", "^">>

isNumber(b) == IsDigit(b)
isLetter(b) == Contains(Lower, b) \/ Contains(Upper, b)
isSymbol(b) == Contains(Symbols, b)

\* short is <<>> (NoShort) or one byte
ValidShort(short) ==
    short = <<>> \/ isNumber(short[1]) \/ isLetter(short[1])

ValidLong(long) ==
    \/ long = <<>>
    \/ /\ isNumber(long[1]) \/ isLetter(long[1])
       /\ \A i \in 2..Len(long) :
              isNumber(long[i]) \/ isLetter(long[i]) \/ isSymbol(long[i])

RECURSIVE TrimLeftDash(_)
TrimLeftDash(s) ==
    IF s # <<>> /\ s[1] = "-" THEN TrimLeftDash(Tail(s)) ELSE s

\* an addVar without the test of the destination pointer
addVarPanicsNames(f, o) ==
    \/ ~ValidShort(o.short)
    \/ ~ValidLong(TrimLeftDash(o.long))
    \/ \E i \in 1..Len(nodes[f].params) :
          LET p == params[nodes[f].params[i]]
          IN \/ o.short # <<>> /\ p.short = o.short
             \/ TrimLeftDash(o.long) # <<>> /\ p.long = TrimLeftDash(o.long)

\* the cases in which addVar panics
addVarPanics(f, o) ==
    \/ ~ValidShort(o.short)
    \/ ~ValidLong(TrimLeftDash(o.long))
    \/ \E i \in 1..Len(nodes[f].params) :
          LET p == params[nodes[f].params[i]]
          IN \/ o.short # <<>> /\ p.short = o.short
             \/ TrimLeftDash(o.long) # <<>> /\ p.long = TrimLeftDash(o.long)
    \/ o.ptr \in DOMAIN paramOf

\* the default addVar keeps: a zero default is dropped unless WithZeroDefault
keptDft(o) ==
    IF o.dft.has /\ ~o.zero /\ o.dft.v = Zero(o.t) THEN NoDft ELSE o.dft

addVar(f, o) ==
    /\ pc = "idle"
    /\ ~addVarPanics(f, o)
    /\ LET pid == Len(params) + 1
       IN /\ params' = Append(params,
                 [ptr |-> o.ptr, t |-> o.t, dft |-> keptDft(o), short |-> o.short,
                  long |-> TrimLeftDash(o.long), parsed |-> FALSE,
                  shared |-> FALSE, owner |-> f])
          /\ nodes' = [nodes EXCEPT ![f].params = Append(@, pid)]
          /\ paramOf' = [x \in DOMAIN paramOf \cup {o.ptr} |->
                            IF x = o.ptr THEN pid ELSE paramOf[x]]
    /\ mem' = [x \in DOMAIN mem \cup {o.ptr} |->
                  IF x = o.ptr THEN o.init ELSE mem[x]]
    /\ UNCHANGED <<nmw, nh>>
    /\ UNCHANGED runVars

Parsed(pointer) ==
    pointer \in DOMAIN paramOf /\ params[paramOf[pointer]].parsed

----------------------------------------------------------------------------
(* Router.  The state a parse works on is threaded through the operators   *)
(* as st = [mem, params, idx, cur, err].                                   *)

\* the first position of list whose element satisfies P, or 0
First(list, P(_)) ==
    LET S == {i \in 1..Len(list) : P(list[i])}
    IN IF S = {} THEN 0 ELSE CHOOSE i \in S : \A j \in S : i <= j

\* a setDft that would fill nothing
setDftNone(st, f) == st

\* the loop of setDft from position i of fs.params on
RECURSIVE setDftFrom(_, _, _)
setDftFrom(st, list, i) ==
    IF i > Len(list) THEN st
    ELSE LET p == st.params[list[i]]
         IN IF ~p.parsed /\ p.dft.has
            THEN setDftFrom([st EXCEPT !.mem[p.ptr] = p.dft.v,
                                       !.params[list[i]].shared = (p.t.k = "map")],
                            list, i + 1)
            ELSE setDftFrom(st, list, i + 1)

setDft(st, f) == setDftFrom(st, nodes[f].params, 1)

\* _parseParam on option pid: from the main cursor when main, else from a
\* cursor of its own
parseOpt(st, pid, a, main) ==
    LET p == st.params[pid]
        r == _parseParam(p.t, st.mem[p.ptr], a)
    IN [st EXCEPT !.params[pid].parsed = TRUE,
                  !.params[pid].dft.v = IF p.shared THEN r.val ELSE @,
                  !.mem[p.ptr] = r.val,
                  !.idx = IF main THEN r.idx ELSE @,
                  !.err = r.err]

Help == <<"h", "e", "l", "p">>

_parseLong(st, f, arg) ==
    LET matches(pid) ==
            LET p == st.params[pid]
            IN /\ p.long # <<>>
               /\ \/ DashDash \o p.long = arg
                  \/ HasPrefix(arg, DashDash \o p.long \o <<"=">>)
        i == First(nodes[f].params, matches)
    IN IF i = 0
       THEN [st EXCEPT !.err = IF arg = DashDash \o Help THEN ErrHelp
                               ELSE ErrUnknownOption]
       ELSE LET pid == nodes[f].params[i]
                pre == DashDash \o st.params[pid].long \o <<"=">>
            IN IF HasPrefix(arg, pre)
               THEN parseOpt(st, pid,
                             newArg(SubSeq(arg, Len(pre) + 1, Len(arg))), FALSE)
               ELSE parseOpt(st, pid, newArgs(args, st.idx), TRUE)

isBoolParam(t) == t.k = "bool"

\* the first loop of the cluster branch, from rune i on: ps collects the
\* options that are not bool
RECURSIVE clusterScan(_, _, _, _, _)
clusterScan(st, f, rr, i, ps) ==
    IF i > Len(rr) THEN [st |-> st, ps |-> ps]
    ELSE LET has(pid) == st.params[pid].short # <<>>
                         /\ st.params[pid].short = <<rr[i]>>
             j == First(nodes[f].params, has)
         IN IF j = 0
            THEN [st |-> [st EXCEPT !.err = IF rr[i] = "h" THEN ErrHelp
                                           ELSE ErrUnknownOption],
                  ps |-> ps]
            ELSE LET p == st.params[nodes[f].params[j]]
                 IN IF isBoolParam(p.t)
                    THEN clusterScan([st EXCEPT !.mem[p.ptr] = TRUE],
                                     f, rr, i + 1, ps)
                    ELSE clusterScan(st, f, rr, i + 1,
                                     Append(ps, nodes[f].params[j]))

\* the collected options left in encounter order
Forward(list) == list

Reverse(list) == [i \in 1..Len(list) |-> list[Len(list) + 1 - i]]

\* the second loop of the cluster branch
RECURSIVE clusterParse(_, _, _)
clusterParse(st, ps, i) ==
    IF i > Len(ps) THEN st
    ELSE LET st1 == parseOpt(st, ps[i], newArgs(args, st.idx), TRUE)
         IN IF st1.err # NoErr THEN st1 ELSE clusterParse(st1, ps, i + 1)

\* a router for which -h would be one more unknown option
unmatchedShortPlain(arg) == ErrUnknownOption

\* the error of a single short option that matches no option of the node
unmatchedShort(arg) ==
    IF arg = <<"-", "h">> THEN ErrHelp ELSE ErrUnknownOption

_parseShort(st, f, arg) ==
    LET rr == Tail(arg)
    IN IF Len(rr) = 0 THEN [st EXCEPT !.err = ErrUnknownOption]
       ELSE IF Len(rr) = 1
       THEN LET has(pid) == st.params[pid].short # <<>>
                            /\ Dash \o st.params[pid].short = arg
                i == First(nodes[f].params, has)
            IN IF i = 0 THEN [st EXCEPT !.err = unmatchedShort(arg)]
               ELSE parseOpt(st, nodes[f].params[i], newArgs(args, st.idx), TRUE)
       ELSE LET sc == clusterScan(st, f, rr, 1, <<>>)
            IN IF sc.st.err # NoErr THEN sc.st
               ELSE clusterParse(sc.st, Reverse(sc.ps), 1)

\* a router that would refuse every bare token on behalf of the root
_parseSubcmdAtRoot(st, f, arg) ==
    [st EXCEPT !.err = ErrUnknownSubCmd, !.cur = 1]

_parseSubcmd(st, f, arg) ==
    LET isCmd(c) == nodes[c].name = arg \/ Contains(nodes[c].aliases, arg)
        c == First(nodes[f].cmds, isCmd)
        anon(pid) == /\ st.params[pid].short = <<>>
                     /\ st.params[pid].long = <<>>
                     /\ ~st.params[pid].parsed
        i == First(nodes[f].params, anon)
    IN IF c # 0 THEN [st EXCEPT !.cur = nodes[f].cmds[c]]
       ELSE IF i # 0 THEN parseOpt(st, nodes[f].params[i], newArg(arg), FALSE)
       ELSE [st EXCEPT !.err = IF arg = Help THEN ErrHelp ELSE ErrUnknownSubCmd]

\* one turn of the loop of _parse at node st.cur, on the token at the cursor
_parse(st) ==
    LET arg == args[st.idx + 1]
        st1 == [st EXCEPT !.idx = @ + 1]
    IN IF HasPrefix(arg, DashDash) THEN _parseLong(st1, st.cur, arg)
       ELSE IF HasPrefix(arg, Dash) THEN _parseShort(st1, st.cur, arg)
       ELSE _parseSubcmd(setDft(st1, st.cur), st.cur, arg)

State == [mem |-> mem, params |-> params, idx |-> idx, cur |-> cur, err |-> NoErr]

----------------------------------------------------------------------------
(* Run                                                                     *)

\* Run(ctx, a...) is called on the root with a context that holds no command
Run(a) ==
    /\ pc = "idle"
    /\ pc' = "parse"
    /\ args' = a
    /\ idx' = 0
    /\ cur' = 1
    /\ UNCHANGED <<err, ctx, depth, stack, trace>>
    /\ UNCHANGED treeVars

\* a token is left: one turn of the loop of _parse; an error ends Run
ParseToken ==
    /\ pc = "parse"
    /\ idx < Len(args)
    /\ LET st == _parse(State)
       IN /\ mem' = st.mem
          /\ params' = st.params
          /\ idx' = st.idx
          /\ cur' = st.cur
          /\ err' = st.err
          /\ pc' = IF st.err # NoErr THEN "done" ELSE "parse"
    /\ UNCHANGED <<nodes, paramOf, nmw, nh, args, ctx, depth, stack, trace>>

\* a Run that calls f.fn whether or not the node has a handler
ParseEndCalls ==
    /\ pc = "parse"
    /\ idx >= Len(args)
    /\ mem' = setDft(State, cur).mem
    /\ params' = setDft(State, cur).params
    /\ pc' = "call"
    /\ err' = err
    /\ UNCHANGED <<nodes, paramOf, nmw, nh, args, idx, cur, ctx, depth,
                   stack, trace>>

\* the cursor is exhausted: defaults are set, parse returns the node and Run
\* calls its handler, if it has one
ParseEnd ==
    /\ pc = "parse"
    /\ idx >= Len(args)
    /\ mem' = setDft(State, cur).mem
    /\ params' = setDft(State, cur).params
    /\ IF nodes[cur].fn.set
       THEN pc' = "call" /\ err' = err
       ELSE pc' = "done" /\ err' = ErrNoExecFunc
    /\ UNCHANGED <<nodes, paramOf, nmw, nh, args, idx, cur, ctx, depth,
                   stack, trace>>

Event(ev, id, cmd) == [ev |-> ev, id |-> id, cmd |-> cmd]

\* the closure chain built for position n of node fs: the command of the
\* context becomes fs and fs.mws[n] is called with the next layer.  The
\* interceptor then calls its continuation or returns without calling it.
Enter ==
    /\ pc = "call"
    /\ depth < Len(nodes[cur].fn.layers)
    /\ LET l == nodes[cur].fn.layers[depth + 1]
       IN IF l.n > Len(nodes[l.fs].mws)
          THEN /\ pc' = "panic"
               /\ UNCHANGED <<ctx, depth, stack, trace>>
          ELSE LET m == nodes[l.fs].mws[l.n]
               IN /\ ctx' = l.fs
                  /\ trace' = Append(trace, Event("enter", m, l.fs))
                  /\ stack' = Append(stack, m)
                  /\ \E callsNext \in BOOLEAN :
                        IF callsNext
                        THEN pc' = "call" /\ depth' = depth + 1
                        ELSE pc' = "ret" /\ depth' = depth
    /\ UNCHANGED <<args, idx, cur, err>>
    /\ UNCHANGED treeVars

\* the innermost layer: the terminal handler given to Handle
Terminal ==
    /\ pc = "call"
    /\ depth = Len(nodes[cur].fn.layers)
    /\ trace' = Append(trace, Event("handler", nodes[cur].fn.h, ctx))
    /\ pc' = "ret"
    /\ UNCHANGED <<args, idx, cur, err, ctx, depth, stack>>
    /\ UNCHANGED treeVars

\* the innermost running interceptor returns
Exit ==
    /\ pc = "ret"
    /\ stack # <<>>
    /\ trace' = Append(trace, Event("exit", stack[Len(stack)], NoNode))
    /\ stack' = SubSeq(stack, 1, Len(stack) - 1)
    /\ UNCHANGED <<pc, args, idx, cur, err, ctx, depth>>
    /\ UNCHANGED treeVars

\* f.fn(ctx) has returned: Run returns a nil error
Return ==
    /\ pc = "ret"
    /\ stack = <<>>
    /\ pc' = "done"
    /\ UNCHANGED <<args, idx, cur, err, ctx, depth, stack, trace>>
    /\ UNCHANGED treeVars

\* a second Run for which every option would be unsupplied again
RunAgainFresh(a) ==
    /\ pc = "done"
    /\ pc' = "parse"
    /\ args' = a
    /\ idx' = 0
    /\ cur' = 1
    /\ err' = NoErr
    /\ ctx' = NoNode
    /\ depth' = 0
    /\ stack' = <<>>
    /\ trace' = <<>>
    /\ params' = [pid \in DOMAIN params |-> [params[pid] EXCEPT !.parsed = FALSE]]
    /\ UNCHANGED <<nodes, paramOf, mem, nmw, nh>>

\* Run is called again on a tree that has been run: parse starts at the root
\* with a new cursor, and nothing of the tree is rebuilt
RunAgain(a) ==
    /\ pc = "done"
    /\ pc' = "parse"
    /\ args' = a
    /\ idx' = 0
    /\ cur' = 1
    /\ err' = NoErr
    /\ ctx' = NoNode
    /\ depth' = 0
    /\ stack' = <<>>
    /\ trace' = <<>>
    /\ UNCHANGED treeVars

Init ==
    /\ params = <<>>
    /\ nodes = <<New>>
    /\ paramOf = <<>>
    /\ mem = <<>>
    /\ nmw = 0
    /\ nh = 0
    /\ pc = "idle"
    /\ args = <<>>
    /\ idx = 0
    /\ cur = 1
    /\ err = NoErr
    /\ ctx = NoNode
    /\ depth = 0
    /\ stack = <<>>
    /\ trace = <<>>

\* the steps of a running Run
RunStep == ParseToken \/ ParseEnd \/ Enter \/ Terminal \/ Exit \/ Return

----------------------------------------------------------------------------
(* SpecChain: any program that builds a tree of commands, statement scopes *)
(* and interceptors and then runs it on a route.                           *)

CmdNames == {<<"a">>, <<"b">>}

\* every list of at most n elements of S
Lists(S, n) == UNION {[1..k -> S] : k \in 0..n}

NextChain ==
    \/ \E f \in NodeIds : Use(f, 1) /\ Size' <= MaxSize
    \/ \E f \in NodeIds, k \in 0..MaxSize : Handle(f, k) /\ Size' <= MaxSize
    \/ \E f \in NodeIds, k \in 0..1 : Stmt(f, k) /\ Size' <= MaxSize
    \/ \E f \in NodeIds, name \in CmdNames, k \in 0..1 :
          Cmd(f, name, k) /\ Size' <= MaxSize
    \/ \E a \in Lists(CmdNames, MaxArgs) : Run(a)
    \/ RunStep

SpecChain == Init /\ [][NextChain]_vars

----------------------------------------------------------------------------
(* Programs with options.  A specification is given by the registration    *)
(* calls the program may make (a catalogue of option declarations and the  *)
(* names of its commands) and the tokens it may be run on.                 *)

Opt(ptr, short, long, t, dft, zero, init) ==
    [ptr |-> ptr, short |-> short, long |-> long, t |-> t, dft |-> dft,
     zero |-> zero, init |-> init]

\* a program without interceptors: its handlers are the bare terminal ones
NextOpts(Cat, Names, Toks, n) ==
    \/ \E f \in NodeIds, o \in Cat : addVar(f, o) /\ Size' <= MaxRegs
    \/ \E f \in NodeIds, name \in Names : Cmd(f, name, 0) /\ Size' <= MaxRegs
    \/ \E f \in NodeIds : Handle(f, 0) /\ Size' <= MaxRegs
    \/ \E a \in Lists(Toks, n) : Run(a)
    \/ ParseToken
    \/ ParseEnd
    \/ Terminal
    \/ Return

\* SpecReg: two flags, registered on any node before or after the commands
\* are made, and probed on any route
FlagX == Opt(1, <<"x">>, <<>>, BoolT, Dft(FALSE), FALSE, FALSE)
FlagY == Opt(2, <<"y">>, <<>>, BoolT, Dft(FALSE), FALSE, FALSE)

SpecReg ==
    Init /\ [][NextOpts({FlagX, FlagY}, CmdNames,
                        {<<"-", "x">>, <<"-", "y">>, <<"a">>, <<"b">>},
                        MaxArgs)]_vars

\* SpecScalar: an int option with default 7 and a flag whose default false
\* is kept (WithZeroDefault) over a variable that starts true
IntN == Opt(1, <<"n">>, <<"n", "u", "m">>, IntT(64), Dft(7), FALSE, 0)
BoolB == Opt(2, <<"b">>, <<"b", "b">>, BoolT, Dft(FALSE), TRUE, TRUE)

ScalarToks ==
    {<<"-", "n">>, <<"1">>, <<"-", "-", "n", "u", "m", "=", "2">>, <<"a">>,
     <<"-", "b">>, <<"-", "b", "b">>}

SpecScalar == Init /\ [][NextOpts({IntN, BoolB}, {<<"a">>}, ScalarToks, MaxToks)]_vars

\* SpecDft: the same two options, named in the input or left to their defaults
DftToks == {<<"-", "n">>, <<"1">>, <<"-", "b">>, <<"a">>}

SpecDft == Init /\ [][NextOpts({IntN, BoolB}, {<<"a">>}, DftToks, MaxToks)]_vars

\* SpecSlice: a []int64 option with default [7, 8] over a nil slice
SliceS == Opt(1, <<"s">>, <<"s", "l">>, SliceT(IntT(64)), Dft(<<7, 8>>), FALSE, <<>>)

SliceToks ==
    {<<"-", "s">>, <<"-", "-", "s", "l">>, <<"4">>,
     <<"-", "-", "s", "l", "=", "5", ",", "6">>, <<"a">>}

SpecSlice == Init /\ [][NextOpts({SliceS}, {<<"a">>}, SliceToks, MaxToks)]_vars

\* SpecMap: a map[uint8][]string option with default {1: [a]} and a
\* map[uint8]int64 option without default, both over nil maps
MapMS == Opt(1, <<"m">>, <<"m", "s">>, MapT(UintT(8), SliceT(StringT)),
          Dft((1 :> <<<<"a">>>>)), FALSE, <<>>)
MapMI == Opt(2, <<"k">>, <<"m", "i">>, MapT(UintT(8), IntT(64)), NoDft, FALSE, <<>>)

MapToks ==
    {<<"-", "m">>, <<"1", ":", "x", ",", "1", ":", "y">>,
     <<"-", "-", "m", "s", "=", "1", ":", "z">>,
     <<"-", "k">>, <<"1", ":", "2", ",", "1", ":", "3">>, <<"a">>}

SpecMap == Init /\ [][NextOpts({MapMS, MapMI}, {<<"a">>}, MapToks, MaxToks)]_vars

\* a program of one command: options and a handler on the root
NextFlat(Cat, Toks, n) ==
    \/ \E o \in Cat : addVar(1, o) /\ Size' <= MaxRegs
    \/ Handle(1, 0) /\ Size' <= MaxRegs
    \/ \E a \in Lists(Toks, n) : Run(a)
    \/ ParseToken
    \/ ParseEnd
    \/ Terminal
    \/ Return

\* SpecBool: a named flag (Bool('b', "bb", true)) and a positional bool over
\* a variable that starts true.  No default of the two is false, so a
\* destination that turns false was set by the input.
NamedB == Opt(1, <<"b">>, <<"b", "b">>, BoolT, Dft(TRUE), FALSE, FALSE)
PosB == Opt(2, <<>>, <<>>, BoolT, NoDft, FALSE, TRUE)

BoolToks ==
    {<<"-", "b">>, <<"-", "-", "b", "b">>, DashDash \o <<"b", "b", "=">> \o True,
     DashDash \o <<"b", "b", "=">> \o False, False}

SpecBool == Init /\ [][NextFlat({NamedB, PosB}, BoolToks, MaxToks)]_vars

\* a program with options, commands and interceptors
NextTree(Cat, Names, Toks, n) ==
    \/ \E f \in NodeIds, o \in Cat : addVar(f, o) /\ Size' <= MaxRegs
    \/ \E f \in NodeIds, name \in Names, k \in 0..1 :
          Cmd(f, name, k) /\ Size' <= MaxRegs
    \/ \E f \in NodeIds : Use(f, 1) /\ Size' <= MaxRegs
    \/ \E f \in NodeIds : Handle(f, 0) /\ Size' <= MaxRegs
    \/ \E a \in Lists(Toks, n) : Run(a)
    \/ RunStep

\* SpecHelp: a flag whose short name is h (Bool('h', "", false)) and an int
\* option with default 7, on any node of a tree
FlagH == Opt(1, <<"h">>, <<>>, BoolT, Dft(FALSE), FALSE, FALSE)
IntV == Opt(2, <<>>, <<"v">>, IntT(64), Dft(7), FALSE, 0)

HelpToks == {<<"-", "h">>, <<"-", "-", "v", "=", "2">>, <<"a">>}

SpecHelp == Init /\ [][NextTree({FlagH, IntV}, {<<"a">>}, HelpToks, MaxToks)]_vars

\* SpecUsage: the int option on any node of a tree of commands named a,
\* run on inputs that fail in every way
\* options that collide: DupShort has the short name of DupA, DupLong its
\* long name (written with its dashes), DupPtr its destination
DupA == Opt(1, <<"x">>, <<"x", "x">>, BoolT, Dft(FALSE), FALSE, FALSE)
DupShort == Opt(2, <<"x">>, <<"y", "y">>, BoolT, Dft(FALSE), FALSE, FALSE)
DupLong == Opt(3, <<"y">>, <<"-", "-", "x", "x">>, BoolT, Dft(FALSE), FALSE, FALSE)
DupPtr == Opt(1, <<"z">>, <<"z", "z">>, BoolT, Dft(FALSE), FALSE, FALSE)
DupCat == {DupA, DupShort, DupLong, DupPtr}

SpecDup ==
    Init /\ [][NextOpts(DupCat, {<<"a">>}, {<<"-", "x">>, <<"a">>}, MaxArgs)]_vars

UsageToks == {<<"-", "n">>, <<"1">>, <<"a">>, <<"-", "h">>}

SpecUsage == Init /\ [][NextOpts({IntN}, {<<"a">>}, UsageToks, MaxToks)]_vars

----------------------------------------------------------------------------
(* Observations on a dispatch.                                             *)

\* the nodes from the root down to f, along the parent pointers
RECURSIVE Path(_)
Path(f) == IF f = NoNode THEN <<>> ELSE Append(Path(nodes[f].parent), f)

RECURSIVE Concat(_)
Concat(lists) == IF lists = <<>> THEN <<>> ELSE Head(lists) \o Concat(Tail(lists))

\* the interceptors that had been registered on f when handler fn was set
\* (interceptors are numbered in the order they were handed over)
Before(f, fn) == SelectSeq(nodes[f].mws, LAMBDA m : m <= fn.seen)

\* the interceptors that had been registered on the nodes from the root down
\* to f when f's handler was set, outermost first
Accumulated(f) ==
    Concat([i \in 1..Len(Path(f)) |-> Before(Path(f)[i], nodes[f].fn)])

Ids(events, ev) ==
    LET sel == SelectSeq(events, LAMBDA e : e.ev = ev)
    IN [i \in 1..Len(sel) |-> sel[i].id]

Entered == Ids(trace, "enter")
Exited == Ids(trace, "exit")
HandlerRan == \E i \in 1..Len(trace) : trace[i].ev = "handler"

\* Run has returned a nil error and the terminal handler was reached
Dispatched == pc = "done" /\ err = NoErr /\ HandlerRan

\* the trace of a dispatch that enters the interceptors ms in order, runs
\* handler h and returns through them in reverse
Nested(ms, h) ==
    /\ Entered = ms
    /\ Exited = Reverse(ms)
    /\ Len(trace) = 2 * Len(ms) + 1
    /\ trace[Len(ms) + 1].ev = "handler"
    /\ trace[Len(ms) + 1].id = h

----------------------------------------------------------------------------
(* Claims on the interceptor chain.                                        *)

\* C1: on a successful Run that reaches the terminal handler of target B,
\* the interceptors are entered root first, each ancestor's in registration
\* order, then B's own (those of the Handle call last), then the handler
\* runs, and control returns in exactly the reverse order; each interceptor
\* is entered once.
C1_EnteredRootFirstOnce ==
    Dispatched =>
        Nested(Accumulated(cur) \o nodes[cur].fn.extra, nodes[cur].fn.h)

\* C2: the interceptors passed to Handle(h, extra...) are each invoked once,
\* in the order given, after the accumulated interceptors and before h.
C2_ExtrasWrapTerminal ==
    Dispatched =>
        LET extra == nodes[cur].fn.extra
            n == Len(Entered)
        IN /\ Len(extra) <= n
           /\ SubSeq(Entered, n - Len(extra) + 1, n) = extra
           /\ \A i \in 1..(n - Len(extra)) :
                  \A j \in 1..Len(extra) : Entered[i] # extra[j]

\* C3: the interceptor set of a handler is fixed when Handle is called: every
\* interceptor registered before it on the node or an ancestor is invoked,
\* and no interceptor registered after it is.
C3_FixedAtHandle ==
    /\ \A i \in 1..Len(Entered) :
           Entered[i] <= nodes[cur].fn.seen + Len(nodes[cur].fn.extra)
    /\ Dispatched =>
           \A i \in 1..Len(Accumulated(cur)) :
               \E j \in 1..Len(Entered) : Entered[j] = Accumulated(cur)[i]

----------------------------------------------------------------------------
(* Claims on the option registries.                                        *)

\* the options registered on f itself, in registration order
Own(f) == SelectSeq([i \in 1..Len(params) |-> i], LAMBDA pid : params[pid].owner = f)

\* what the claim says f's registry is: the options its parent had when f
\* was created, then f's own
RECURSIVE Registry(_)
Registry(f) ==
    IF nodes[f].parent = NoNode THEN Own(f)
    ELSE SelectSeq(Registry(nodes[f].parent), LAMBDA pid : pid <= nodes[f].born)
         \o Own(f)

\* the option of f's registry (as the claim defines it) a short name selects
Named(f, c) == First(Registry(f), LAMBDA pid : params[pid].short = <<c>>)

\* a step of the router on a token -c at the current node
ShortStep(c) ==
    /\ ParseToken
    /\ args[idx + 1] = <<"-", c>>

\* C4: option registries are copy-on-branch.  Every node's registry is
\* exactly what its parent had when the node was created followed by the
\* options registered on the node itself; and a token -x met at a node is
\* matched exactly when that registry holds an option named x: an option
\* the parent registered after the child was made, or one registered on a
\* child, a sibling or a descendant only, gives "unknown option" and writes
\* nothing.
C4_CopyOnBranch ==
    /\ [](\A f \in NodeIds : nodes[f].params = Registry(f))
    /\ [][\A c \in {"x", "y"} : ShortStep(c) =>
            IF Named(cur, c) # 0
            THEN LET pid == Registry(cur)[Named(cur, c)]
                 IN /\ err' = NoErr
                    /\ params'[pid].parsed
                    /\ mem'[params[pid].ptr] = TRUE
            ELSE /\ err' = ErrUnknownOption
                 /\ pc' = "done"
                 /\ mem' = mem
                 /\ params' = params]_vars

\* Run was given -y at a sub-command made before its parent registered y
C4_LateAtParent ==
    /\ pc = "done"
    /\ err = ErrUnknownOption
    /\ nodes[cur].parent # NoNode
    /\ idx > 0
    /\ args[idx] = <<"-", "y">>
    /\ \E pid \in 1..Len(params) :
          /\ params[pid].short = <<"y">>
          /\ params[pid].owner = nodes[cur].parent
          /\ pid > nodes[cur].born

----------------------------------------------------------------------------
(* What the input says, read off the tokens without the router.  In the    *)
(* specifications below no token that names an option is a value another   *)
(* option accepts, so in a parse that succeeds every token naming an       *)
(* option is an occurrence of it.                                          *)

\* token tok names option o: -x, a cluster holding x, --name or --name=...
Mentions(o, tok) ==
    \/ o.short # <<>> /\ tok = Dash \o o.short
    \/ /\ o.short # <<>>
       /\ Len(tok) > 2
       /\ tok[1] = "-"
       /\ tok[2] # "-"
       /\ \E i \in 2..Len(tok) : <<tok[i]>> = o.short
    \/ o.long # <<>> /\ tok = DashDash \o o.long
    \/ o.long # <<>> /\ HasPrefix(tok, DashDash \o o.long \o <<"=">>)

\* the position of the last token of the input that names o, or 0
LastOcc(o) ==
    LET at == {i \in 1..Len(args) : Mentions(o, args[i])}
    IN IF at = {} THEN 0 ELSE CHOOSE i \in at : \A j \in at : j <= i

Supplied(o) == LastOcc(o) # 0

\* the text given to o by the occurrence at position i: what follows the =
\* sign, or else the next token
TextAt(o, i) ==
    LET pre == DashDash \o o.long \o <<"=">>
    IN IF o.long # <<>> /\ HasPrefix(args[i], pre)
       THEN SubSeq(args[i], Len(pre) + 1, Len(args[i]))
       ELSE IF i < Len(args) THEN args[i + 1] ELSE <<>>

\* the value the occurrence at position i gives a scalar option
ValueAt(o, i) ==
    IF o.t.k = "int" THEN ParseInt(TextAt(o, i)).i
    ELSE IF o.t.k = "bool"
    THEN IF HasPrefix(args[i], DashDash \o o.long \o <<"=">>)
         THEN TextAt(o, i) = True
         ELSE TRUE
    ELSE TextAt(o, i)

\* the parse succeeded and nothing of the dispatch has run yet
AtDispatch == pc = "call" /\ err = NoErr /\ trace = <<>>

\* the terminal handler has run
AfterHandler == pc \in {"ret", "done"} /\ err = NoErr /\ HandlerRan

\* the declaration a registered option was made from
DeclOf(Cat, pid) == CHOOSE o \in Cat : o.ptr = params[pid].ptr

----------------------------------------------------------------------------
(* Claims on scalar options and defaults.                                  *)

\* C5: when the handler runs, the destination of a scalar option named in
\* the input holds the value of its last occurrence, wherever along the
\* route the occurrences are; no default fill overwrites it.
C5_LastOccurrenceWins ==
    AfterHandler =>
        \A o \in {IntN, BoolB} :
            Supplied(o) => mem[o.ptr] = ValueAt(o, LastOcc(o))

\* C6: when a parse succeeds, before any interceptor or handler of the
\* dispatch target runs, every option of the target's registry that the
\* input does not name and that has a default holds that default.
C6_DefaultsAtDispatch ==
    AtDispatch =>
        \A i \in 1..Len(nodes[cur].params) :
            LET pid == nodes[cur].params[i]
                o == DeclOf({IntN, BoolB}, pid)
            IN ~Supplied(o) /\ keptDft(o).has => mem[o.ptr] = o.dft.v

\* a sub-command is dispatched with both options in its registry, neither
\* named in the input, both destinations moved from their initial values
C6_FilledAtChild ==
    /\ AtDispatch
    /\ cur # 1
    /\ Len(nodes[cur].params) = 2
    /\ ~Supplied(IntN) /\ ~Supplied(BoolB)
    /\ mem[IntN.ptr] = 7 /\ mem[BoolB.ptr] = FALSE
    /\ IntN.init # 7 /\ BoolB.init # FALSE

----------------------------------------------------------------------------
(* Claims on sequence and mapping options.                                 *)

Aligned(o, i) == o.long # <<>> /\ HasPrefix(args[i], DashDash \o o.long \o <<"=">>)

\* the texts of the elements the occurrence at position i gives a sequence
\* or mapping option: the pieces of an aligned value, or the next token
\* (which a mapping option splits in pieces too)
Pieces(o, i) ==
    IF Aligned(o, i) \/ o.t.k = "map" THEN Split(TextAt(o, i), Sep1)
    ELSE <<TextAt(o, i)>>

\* the pieces of every occurrence of o from position i on, in input order
RECURSIVE AllPieces(_, _)
AllPieces(o, i) ==
    IF i > Len(args) THEN <<>>
    ELSE IF Mentions(o, args[i]) THEN Pieces(o, i) \o AllPieces(o, i + 1)
    ELSE AllPieces(o, i + 1)

\* the elements the input supplies to a sequence option of ints
Elems(o) ==
    LET ps == AllPieces(o, 1) IN [j \in 1..Len(ps) |-> ParseInt(ps[j]).i]

\* C7: a sequence option with a non-empty default over an empty destination
\* holds, when the handler runs, its default if the input does not name it
\* (and the dispatch target has it), and otherwise exactly the supplied
\* elements in input order, whether the occurrences are at the registering
\* node or at a sub-command that inherited the option.
C7_SuppliedElementsOnly ==
    AfterHandler =>
        /\ Supplied(SliceS) => mem[SliceS.ptr] = Elems(SliceS)
        /\ ~Supplied(SliceS) /\ (\E i \in 1..Len(nodes[cur].params) :
                               params[nodes[cur].params[i]].ptr = SliceS.ptr)
              => mem[SliceS.ptr] = SliceS.dft.v

\* the pairs the input supplies to a mapping option, in input order
PairsOf(o) ==
    LET ps == AllPieces(o, 1)
    IN [j \in 1..Len(ps) |->
           LET kv == Split(ps[j], Sep2)
           IN [key |-> ParseUint(kv[1]).i,
               val |-> IF o.t.v.k = "int" THEN ParseInt(kv[2]).i ELSE kv[2]]]

\* the values the pairs give key k, in input order
ValuesFor(o, k) ==
    LET sel == SelectSeq(PairsOf(o), LAMBDA pr : pr.key = k)
    IN [j \in 1..Len(sel) |-> sel[j].val]

\* C8: mapping options accumulate over occurrences and over the pairs of one
\* token: after a successful parse the destination has every supplied key;
\* with a scalar value type a key holds the value of its last pair, with a
\* sequence value type it holds all the values supplied for it, in order.
C8_MapAccumulates ==
    AfterHandler =>
        \A o \in {MapMS, MapMI} :
            \A j \in 1..Len(PairsOf(o)) :
                LET k == PairsOf(o)[j].key
                    vs == ValuesFor(o, k)
                IN /\ k \in DOMAIN mem[o.ptr]
                   /\ mem[o.ptr][k] = IF o.t.v.k = "slice" THEN vs ELSE vs[Len(vs)]

----------------------------------------------------------------------------
(* Claims on boolean options.                                              *)

\* the router takes a turn on token tok
TokenStep(tok) ==
    /\ ParseToken
    /\ args[idx + 1] = tok

\* o is in the registry of the node the router is at
InRegistry(o) ==
    \E i \in 1..Len(nodes[cur].params) : params[nodes[cur].params[i]].ptr = o.ptr

IsNamed(o) == o.short # <<>> \/ o.long # <<>>

\* a positional option of the current node still waits for its token
PendingPositional ==
    \E i \in 1..Len(nodes[cur].params) :
        LET p == params[nodes[cur].params[i]]
        IN p.short = <<>> /\ p.long = <<>> /\ ~p.parsed

\* -b and --bool set the flag and take no token after them; --bool=true and
\* --bool=false set it to the literal
FormsOfBool(o) ==
    /\ (TokenStep(Dash \o o.short) \/ TokenStep(DashDash \o o.long)) =>
           /\ mem'[o.ptr] = TRUE
           /\ idx' = idx + 1
           /\ err' = NoErr
    /\ \A lit \in {True, False} :
           TokenStep(DashDash \o o.long \o <<"=">> \o lit) =>
               /\ mem'[o.ptr] = (lit = True)
               /\ idx' = idx + 1
               /\ err' = NoErr

\* a bare false that no command and no positional option takes is an error
BareFalse ==
    TokenStep(False) /\ ~PendingPositional =>
        /\ err' = ErrUnknownSubCmd
        /\ pc' = "done"
        /\ \A ptr \in DOMAIN mem : Parsed(ptr) => mem'[ptr] = mem[ptr]

\* the router turns o from true to false on the token --bool=false only
FalseByLiteralOnly(o) ==
    ParseToken /\ mem[o.ptr] = TRUE /\ mem'[o.ptr] = FALSE =>
        args[idx + 1] = DashDash \o o.long \o <<"=">> \o False

\* C9 as amended: a named boolean option given as -b or --bool is set true
\* and takes no following token, so that a following bare false is routed
\* on its own and is an error when nothing matches it; given as --bool=true
\* or --bool=false it is set to that literal, and this is the only way the
\* input sets a named boolean option false.  (A positional boolean option is
\* set false by the bare token false.)
C9_NamedBoolForms ==
    [][/\ InRegistry(NamedB) => FormsOfBool(NamedB) /\ FalseByLiteralOnly(NamedB)
       /\ BareFalse]_vars

\* C9 as stated: the same, with --bool=false the only way the input sets
\* any boolean option false.
C9_AnyBoolForms ==
    [][/\ InRegistry(NamedB) => FormsOfBool(NamedB)
       /\ \A o \in {NamedB, PosB} : InRegistry(o) => FalseByLiteralOnly(o)
       /\ BareFalse]_vars

\* -b set the flag, --bb=false then cleared it, and the bare false after it
\* was refused
C9_ClearedByLiteral ==
    /\ pc = "done"
    /\ err = ErrUnknownSubCmd
    /\ args = <<Dash \o NamedB.short,
                DashDash \o NamedB.long \o <<"=">> \o False, False>>
    /\ idx = Len(args)
    /\ NamedB.ptr \in DOMAIN mem
    /\ mem[NamedB.ptr] = FALSE

----------------------------------------------------------------------------
(* Claims on Help.                                                         *)

\* the token at the cursor is the first one the current node gets: the
\* first of the input at the root, or the one after the name that led to
\* the node (in SpecHelp a command name is never the value of an option)
FirstAtNode ==
    \/ idx = 0
    \/ cur # 1 /\ args[idx] = nodes[cur].name

\* the registry of the current node has an option of short name h
HasShortH ==
    \E i \in 1..Len(nodes[cur].params) :
        params[nodes[cur].params[i]].short = <<"h">>

\* the turn on -h ends the parse with the Help signal at this node: no later
\* token is read, nothing is marked supplied or written, nothing has run
EndsWithHelp ==
    /\ pc' = "done"
    /\ err' = ErrHelp
    /\ cur' = cur
    /\ idx' = idx + 1
    /\ mem' = mem
    /\ params' = params
    /\ trace' = <<>>

\* C10 as amended: at any node of any command tree whose registry has no
\* option of short name h, a -h met as the first token at that node ends
\* parsing at once: Run returns ErrHelp for that node, no later token is
\* examined, no option of the node is marked supplied or written, and
\* (Run being over) no handler or interceptor is invoked.
C10_HelpEndsParse ==
    /\ [][TokenStep(<<"-", "h">>) /\ FirstAtNode /\ ~HasShortH
             => EndsWithHelp]_vars
    /\ [](pc = "done" /\ err = ErrHelp => trace = <<>>)
    /\ [][pc = "done" => pc' = "done" /\ trace' = trace]_vars

\* C10 as stated: the same at every node, whatever its registry holds.
C10_HelpAtAnyNode ==
    /\ [][TokenStep(<<"-", "h">>) /\ FirstAtNode => EndsWithHelp]_vars
    /\ [](pc = "done" /\ err = ErrHelp => trace = <<>>)
    /\ [][pc = "done" => pc' = "done" /\ trace' = trace]_vars

\* Run got a -h after the name of a sub-command that has a handler behind an
\* interceptor and an option of its own with a default: Help came back, a
\* later token was left unread and the option kept its initial value
C10_HelpAtChild ==
    /\ pc = "done"
    /\ err = ErrHelp
    /\ cur # 1
    /\ idx = 2
    /\ args[idx] = <<"-", "h">>
    /\ idx < Len(args)
    /\ nodes[cur].fn.set
    /\ nodes[cur].fn.layers # <<>>
    /\ trace = <<>>
    /\ \E i \in 1..Len(nodes[cur].params) :
          LET p == params[nodes[cur].params[i]]
          IN p.ptr = IntV.ptr /\ ~p.parsed /\ mem[p.ptr] = IntV.init
                /\ p.dft.has /\ p.dft.v # IntV.init

----------------------------------------------------------------------------
(* Claims on the outcome of Run.                                           *)

\* the token at position j is a bare word that is not the value of the -n
\* before it (in SpecUsage the router gets past a -n only when a number
\* follows it, so a -n before a bare word took the word as its value)
RoutedWord(j) ==
    /\ ~HasPrefix(args[j], Dash)
    /\ j > 1 => args[j - 1] # Dash \o IntN.short

\* the node the words of positions j..idx lead to from node d
RECURSIVE Walk(_, _)
Walk(d, j) ==
    IF j > idx THEN d
    ELSE LET kids == {c \in NodeIds : nodes[c].parent = d /\ nodes[c].name = args[j]}
         IN IF RoutedWord(j) /\ kids # {}
            THEN Walk(CHOOSE c \in kids : \A e \in kids : c <= e, j + 1)
            ELSE Walk(d, j + 1)

\* the deepest node the router had entered on the tokens read so far
Deepest == Walk(1, 1)

\* Run has returned an error
Failed == pc = "done" /\ err # NoErr

\* C11: whenever Run returns an error, the usage it returns with it is that
\* of the deepest node the router had entered when the failure occurred.
C11_UsageOfDeepest ==
    Failed => cur = Deepest /\ Usage(cur) = Usage(Deepest)

\* a bare word was refused at a sub-command that has a sub-command of its
\* own, which was never entered
C11_RefusedAtChild ==
    /\ Failed
    /\ err = ErrUnknownSubCmd
    /\ cur # 1
    /\ nodes[cur].cmds # <<>>
    /\ Usage(cur) # Usage(1)
    /\ Usage(cur) # Usage(nodes[cur].cmds[1])

----------------------------------------------------------------------------
(* Dispatch                                                                *)

\* the first thing the composed handler of node f does when it is called:
\* it enters its outermost interceptor, or its terminal handler if it has
\* no interceptor
Outermost(f) ==
    LET fn == nodes[f].fn
    IN IF fn.layers = <<>> THEN Event("handler", fn.h, NoNode)
       ELSE LET l == fn.layers[1]
            IN Event("enter", nodes[l.fs].mws[l.n], l.fs)

\* how many times Run has called the composed handler of the target
Invocations == Cardinality({i \in 1..Len(trace) : trace[i] = Outermost(cur)})

\* parse has returned in this step
ParseReturns == pc = "parse" /\ pc' # "parse"

\* C12: Run calls the composed handler of the node parse returned exactly
\* once if and only if every token was accepted and that node has a
\* handler; with no handler Run returns the no-handler error, which is
\* neither Help nor a parse error; and when Run returns an error nothing
\* has been invoked.
C12_HandlerOnceIffParsed ==
    /\ [](trace # <<>> => /\ pc \in {"call", "ret", "done"}
                          /\ err = NoErr
                          /\ nodes[cur].fn.set
                          /\ trace[1] = Outermost(cur)
                          /\ Invocations = 1)
    /\ [](pc = "done" => IF err = NoErr THEN Invocations = 1
                         ELSE trace = <<>>)
    /\ [][ParseReturns =>
            IF idx >= Len(args)
            THEN IF nodes[cur].fn.set
                 THEN pc' = "call" /\ err' = NoErr /\ cur' = cur
                 ELSE pc' = "done" /\ err' = ErrNoExecFunc
            ELSE pc' = "done" /\ err' \notin {NoErr, ErrNoExecFunc}]_vars

\* a sub-command was dispatched through an interceptor and its handler
C12_DispatchedThroughLayers ==
    /\ Dispatched /\ cur # 1 /\ Len(args) >= 2
    /\ nodes[cur].fn.layers # <<>>
    /\ Invocations = 1

----------------------------------------------------------------------------
(* Registration                                                            *)

\* option o has the short name, the long name or the destination of an
\* option of the registry of node f
Collides(f, o) ==
    \E i \in 1..Len(nodes[f].params) :
        LET p == params[nodes[f].params[i]]
        IN \/ o.short # <<>> /\ p.short = o.short
           \/ TrimLeftDash(o.long) # <<>> /\ p.long = TrimLeftDash(o.long)
           \/ p.ptr = o.ptr

\* this step registers option o on node f
Registers(f, o) ==
    /\ Len(params') = Len(params) + 1
    /\ nodes'[f].params = Append(nodes[f].params, Len(params'))
    /\ params'[Len(params')].ptr = o.ptr
    /\ params'[Len(params')].short = o.short
    /\ params'[Len(params')].long = TrimLeftDash(o.long)

DistinctOptions(f) ==
    \A i, j \in 1..Len(nodes[f].params) :
        i < j => LET p == params[nodes[f].params[i]]
                     q == params[nodes[f].params[j]]
                 IN /\ p.short # <<>> => p.short # q.short
                    /\ p.long # <<>> => p.long # q.long
                    /\ p.ptr # q.ptr

\* C13: no step registers on a node an option whose short name, long name
\* or destination is already in that node's registry (own and inherited),
\* and so no registry ever holds two options with the same non-empty short
\* name, the same non-empty long name or the same destination.
C13_NoDuplicateOption ==
    /\ [](\A f \in NodeIds : DistinctOptions(f))
    /\ [][\A f \in NodeIds, o \in DupCat :
             Collides(f, o) => ~Registers(f, o)]_vars

\* a sub-command holds an inherited option, and registering another one on
\* it is refused for each of the three reasons
C13_RefusedAtChild ==
    \E f \in NodeIds \ {1} :
        /\ Len(nodes[f].params) = 1
        /\ params[nodes[f].params[1]].owner = 1
        /\ \E o \in DupCat : addVarPanics(f, o) /\ params[nodes[f].params[1]].short = o.short
        /\ \E o \in DupCat : addVarPanics(f, o) /\ params[nodes[f].params[1]].long = TrimLeftDash(o.long)
                               /\ params[nodes[f].params[1]].short # o.short
        /\ \E o \in DupCat : addVarPanics(f, o) /\ params[nodes[f].params[1]].ptr = o.ptr
                               /\ params[nodes[f].params[1]].short # o.short

----------------------------------------------------------------------------
(* Names of sub-commands                                                   *)

\* all the aliases given so far
Aliased == Concat([f \in NodeIds |-> nodes[f].aliases])

\* SpecNames: any program that builds a tree with Cmd, Alias and Stmt, gives
\* handlers and runs it on a route
NextNames ==
    \/ \E f \in NodeIds, name \in CmdNames :
          Cmd(f, name, 0) /\ Size' + Len(Aliased') <= MaxSize
    \/ \E f \in NodeIds, alias \in CmdNames :
          Alias(f, alias) /\ Size' + Len(Aliased') <= MaxSize
    \/ \E f \in NodeIds : Stmt(f, 0) /\ Size' + Len(Aliased') <= MaxSize
    \/ \E f \in NodeIds : Handle(f, 0) /\ Size' + Len(Aliased') <= MaxSize
    \/ \E a \in Lists(CmdNames, MaxArgs) : Run(a)
    \/ ParseToken
    \/ ParseEnd
    \/ Terminal
    \/ Return

SpecNames == Init /\ [][NextNames]_vars

\* the tokens that route to child c
Routes(c) == {nodes[c].name} \cup {nodes[c].aliases[i] : i \in 1..Len(nodes[c].aliases)}

\* C14: the names and aliases of the direct children of a node are pairwise
\* distinct: no child has a name or an alias that is the name or an alias
\* of another child of the same node, so each routing token matches at most
\* one child.
C14_ChildNamesDistinct ==
    \A f \in NodeIds :
        \A i, j \in 1..Len(nodes[f].cmds) :
            i # j => Routes(nodes[f].cmds[i]) \cap Routes(nodes[f].cmds[j]) = {}

----------------------------------------------------------------------------
(* The supplied mark                                                       *)

\* parse has returned a node without an error
ParsedOk == pc \in {"call", "ret", "done"} /\ err \in {NoErr, ErrNoExecFunc}

\* C15: after a parse, Parsed(ptr) is true exactly when a token of the
\* input names the option bound to ptr, in any form, a character of a
\* cluster included; and when it is false the destination of an option of
\* the returned node that has a default holds that default.
C15_ParsedIffMatched ==
    ParsedOk =>
        \A o \in {IntN, BoolB} :
            o.ptr \in DOMAIN paramOf =>
                /\ Parsed(o.ptr) <=> Supplied(o)
                /\ /\ ~Parsed(o.ptr)
                   /\ Contains(nodes[cur].params, paramOf[o.ptr])
                   /\ params[paramOf[o.ptr]].dft.has
                   => mem[o.ptr] = params[paramOf[o.ptr]].dft.v

----------------------------------------------------------------------------
(* Statement scopes                                                        *)

IsScope(f) == nodes[f].stmt # NoNode

\* the node a scope was opened on, through any number of nested scopes
RECURSIVE Base(_)
Base(f) == IF IsScope(f) THEN Base(nodes[f].parent) ELSE f

\* command c was registered through a scope
ThroughScope(c) == c # 1 /\ ~IsScope(c) /\ IsScope(nodes[c].parent)

\* the node the router enters from node b on the bare token tok
Routed(b, tok) == _parseSubcmd([State EXCEPT !.cur = b], b, tok).cur

\* the nodes that hold interceptor m, and the place of node f on the path
\* from the root to the target
Holders(m) == {f \in NodeIds : Contains(nodes[f].mws, m)}
Place(f) == CHOOSE i \in 1..Len(Path(cur)) : Path(cur)[i] = f

\* a scope's interceptors are entered only for targets registered through
\* it, and the interceptors of the nodes of the path are entered base
\* first, then the scope's, then the command's own
ScopePrivate ==
    Dispatched =>
        /\ \A f \in NodeIds : \A i \in 1..Len(nodes[f].mws) :
               LET m == nodes[f].mws[i]
               IN /\ IsScope(f) /\ Contains(Entered, m) => Contains(Path(cur), f)
                  /\ Contains(Path(cur), f) /\ m <= nodes[cur].fn.seen
                        => Contains(Entered, m)
        /\ \A x, y \in 1..Len(Entered) :
               \A f \in Holders(Entered[x]), g \in Holders(Entered[y]) :
                   Place(f) < Place(g) => x < y

\* every command registered through a scope is a child of the base node
\* and its name routes to it from there
ScopeRoutable ==
    \A c \in NodeIds :
        ThroughScope(c) =>
            /\ ~IsScope(Base(nodes[c].parent))
            /\ Contains(nodes[Base(nodes[c].parent)].cmds, c)
            /\ Routed(Base(nodes[c].parent), nodes[c].name) = c

\* C16: the interceptors given to Stmt are private to the scope.  A command
\* registered through the scope, or through a scope nested in it, is routed
\* to as a child of the base node, and its dispatch runs the base node's
\* interceptors, then the scope's, then its own; the dispatch of a command
\* registered on the base node itself, or of the base node's handler, runs
\* no interceptor of the scope.
C16_ScopePrivateAndRoutable == ScopePrivate /\ ScopeRoutable

----------------------------------------------------------------------------
(* A tree that is run twice                                                *)

\* SpecAgain: the two scalar options on the root, and any number of runs of
\* the same tree
AgainToks == {<<"-", "n">>, <<"1">>, <<"-", "b">>}

NextAgain ==
    \/ \E o \in {IntN, BoolB} : addVar(1, o) /\ Size' <= MaxRegs
    \/ Handle(1, 0) /\ Size' <= MaxRegs
    \/ \E a \in Lists(AgainToks, MaxArgs) : Run(a)
    \/ \E a \in Lists(AgainToks, MaxArgs) : RunAgain(a)
    \/ ParseToken
    \/ ParseEnd
    \/ Terminal
    \/ Return

SpecAgain == Init /\ [][NextAgain]_vars

\* C17: the supplied mark of an option is never reset: an option that is
\* marked stays marked in every later step, a later Run included, and a
\* step of a Run whose input does not name the option leaves its
\* destination as it was, so no default is written over the value an
\* earlier Run left.
C17_SuppliedNeverReset ==
    [][\A o \in {IntN, BoolB} :
          o.ptr \in DOMAIN paramOf /\ Parsed(o.ptr) =>
              /\ Parsed(o.ptr)'
              /\ ~Supplied(o)' => mem'[o.ptr] = mem[o.ptr]]_vars

\* a Run without -n has parsed its input after an earlier Run with -n 1: the
\* destination holds 1, not the default 7
C17_KeptAcrossRuns ==
    /\ ParsedOk
    /\ IntN.ptr \in DOMAIN paramOf
    /\ Parsed(IntN.ptr)
    /\ ~Supplied(IntN)
    /\ params[paramOf[IntN.ptr]].dft = Dft(7)
    /\ mem[IntN.ptr] = 1

----------------------------------------------------------------------------
(* Clusters of short options                                               *)

\* SpecCluster: two int options n and m and the flag b on the root, and
\* clusters of their letters, one with a letter of no option and one with h
IntM == Opt(3, <<"m">>, <<>>, IntT(64), NoDft, FALSE, 0)

ClusterToks ==
    {<<"-", "n", "m">>, <<"-", "b", "n">>, <<"-", "n", "x">>, <<"-", "n", "h">>,
     <<"1">>, <<"2">>}

SpecCluster == Init /\ [][NextFlat({IntN, IntM, BoolB}, ClusterToks, MaxToks)]_vars

IsCluster(tok) == Len(tok) > 2 /\ tok[1] = "-" /\ tok[2] # "-"

\* the options of the current node whose short name is the letter c
Shorts(c) ==
    {nodes[cur].params[i] : i \in {j \in 1..Len(nodes[cur].params) :
                                     params[nodes[cur].params[j]].short = <<c>>}}

OptAt(tok, i) == CHOOSE pid \in Shorts(tok[i]) : TRUE

\* the places of tok whose letter matches no option
Unmatched(tok) == {i \in 2..Len(tok) : Shorts(tok[i]) = {}}

\* the places of tok whose letter matches an option that is not a flag, in
\* the order of the letters
NonBoolAt(tok) ==
    SelectSeq([j \in 1..(Len(tok) - 1) |-> j + 1],
              LAMBDA i : params[OptAt(tok, i)].t.k # "bool")

\* C18: when every letter of a cluster matches an option, each flag among
\* them is set true and takes no token, and the other options take the
\* tokens after the cluster in reverse order of their letters: the last one
\* takes the first token after the cluster.  When a letter matches no
\* option the cluster fails, with Help if the letter is h and with unknown
\* option otherwise, and no token after the cluster is consumed.
C18_ClusterReverseOrder ==
    [][\A tok \in ClusterToks :
          IsCluster(tok) /\ TokenStep(tok) =>
              IF Unmatched(tok) = {}
              THEN LET nb == NonBoolAt(tok)
                       k == Len(nb)
                   IN /\ \A i \in 2..Len(tok) :
                             params[OptAt(tok, i)].t.k = "bool"
                                 => mem'[params[OptAt(tok, i)].ptr] = TRUE
                      /\ err' = NoErr <=>
                             /\ idx + 1 + k <= Len(args)
                             /\ \A j \in 1..k : ParseInt(args[idx + 1 + j]).ok
                      /\ err' = NoErr =>
                             /\ idx' = idx + 1 + k
                             /\ \A j \in 1..k :
                                    mem'[params[OptAt(tok, nb[j])].ptr]
                                        = ParseInt(args[idx + 1 + (k - j + 1)]).i
              ELSE LET u == CHOOSE i \in Unmatched(tok) :
                                \A j \in Unmatched(tok) : i <= j
                   IN /\ err' = IF tok[u] = "h" THEN ErrHelp ELSE ErrUnknownOption
                      /\ idx' = idx + 1
                      /\ params' = params
                      /\ \A pid \in 1..Len(params) :
                             params[pid].t.k # "bool"
                                 => mem'[params[pid].ptr] = mem[params[pid].ptr]]_vars

\* -nm 1 2 has been parsed: m has taken 1 and n has taken 2
C18_LastLetterFirstToken ==
    /\ args = <<<<"-", "n", "m">>, <<"1">>, <<"2">>>>
    /\ idx = 3
    /\ err = NoErr
    /\ mem[IntN.ptr] = 2
    /\ mem[IntM.ptr] = 1

----------------------------------------------------------------------------
(* Bare tokens                                                             *)

\* SpecPos: a string and an int option without names, registered on any
\* node, and the sub-command a of the root; every token of the input is a
\* bare token
PosS == Opt(1, <<>>, <<>>, StringT, NoDft, FALSE, <<>>)
PosI == Opt(2, <<>>, <<>>, IntT(64), NoDft, FALSE, 0)

PosToks == {<<"a">>, <<"1">>, Help}

NextPos ==
    \/ \E f \in NodeIds, o \in {PosS, PosI} : addVar(f, o) /\ Size' <= MaxRegs
    \/ Cmd(1, <<"a">>, 0) /\ Size' <= MaxRegs
    \/ \E f \in NodeIds : Handle(f, 0) /\ Size' <= MaxRegs
    \/ \E a \in Lists(PosToks, MaxToks) : Run(a)
    \/ ParseToken
    \/ ParseEnd
    \/ Terminal
    \/ Return

SpecPos == Init /\ [][NextPos]_vars

\* the children of the current node that tok names, by position in cmds
Matching(tok) ==
    {i \in 1..Len(nodes[cur].cmds) : tok \in Routes(nodes[cur].cmds[i])}

\* the options without names of the registry of node f, in registration
\* order, and those of them not yet supplied
Anons(f) ==
    SelectSeq(nodes[f].params,
              LAMBDA pid : params[pid].short = <<>> /\ params[pid].long = <<>>)
Pending(f) == SelectSeq(Anons(f), LAMBDA pid : ~params[pid].parsed)

\* the options this step marks supplied
Marked == {pid \in 1..Len(params) : ~params[pid].parsed /\ params'[pid].parsed}

\* the value the bare token tok gives option pid
Decoded(pid, tok) ==
    IF params[pid].t.k = "int" THEN ParseInt(tok).i ELSE tok

\* the number of tokens the router has met at the current node, the one at
\* the cursor included: the root is entered before the first token, the
\* sub-command by the first token that is its name
Entry == IF cur = 1 THEN 0
         ELSE CHOOSE j \in 1..idx :
                  /\ args[j] = nodes[cur].name
                  /\ \A i \in 1..(j - 1) : args[i] # nodes[cur].name
Turn == idx + 1 - Entry

\* C19: a bare token is given to the first child it names, in registration
\* order, and the router goes on there with the tokens after it; else to
\* the first option without names of the node not yet supplied, and the
\* router stays at the node; else it signals Help if it is help; else the
\* parse fails with unknown sub-command.  At the root the k-th bare token
\* that names no child is given to the k-th option without names.
C19_BareTokenPriority ==
    [][\A tok \in PosToks :
          TokenStep(tok) =>
              IF Matching(tok) # {}
              THEN /\ cur' = nodes[cur].cmds[CHOOSE i \in Matching(tok) :
                                                \A j \in Matching(tok) : i <= j]
                   /\ idx' = idx + 1
                   /\ err' = NoErr
                   /\ Marked = {}
              ELSE IF Pending(cur) # <<>>
              THEN /\ Marked = {Pending(cur)[1]}
                   /\ cur' = cur
                   /\ idx' = idx + 1
                   /\ err' = NoErr =>
                          mem'[params[Pending(cur)[1]].ptr] = Decoded(Pending(cur)[1], tok)
                   /\ cur = 1 => Pending(cur)[1] = Anons(cur)[Turn]
              ELSE /\ err' = IF tok = Help THEN ErrHelp ELSE ErrUnknownSubCmd
                   /\ cur' = cur
                   /\ Marked = {}]_vars

\* as stated for every node: the k-th bare token met at a node that names
\* no child of it is given to the k-th option without names of that node
C19_KthTokenKthOption ==
    [][\A tok \in PosToks :
          TokenStep(tok) /\ Matching(tok) = {} /\ Marked # {} =>
              /\ Turn <= Len(Anons(cur))
              /\ Marked = {Anons(cur)[Turn]}]_vars

\* help a 1: the root has given help to its first option without names, and
\* the sub-command has given its first bare token to the second one, which
\* it inherited
C19_SecondOptionAtChild ==
    /\ args = <<Help, <<"a">>, <<"1">>>>
    /\ idx = 3
    /\ err = NoErr
    /\ cur # 1
    /\ Anons(cur) = <<paramOf[PosS.ptr], paramOf[PosI.ptr]>>
    /\ mem[PosS.ptr] = Help
    /\ mem[PosI.ptr] = 1

----------------------------------------------------------------------------
(* A bool inside a sequence or a mapping                                   *)

\* SpecComposite: a []bool, a map[string]bool and a map[bool]string option
\* on the root, each given in its --name=value form
SliceB == Opt(1, <<"s">>, <<"s", "b">>, SliceT(BoolT), NoDft, FALSE, <<>>)
MapSB == Opt(2, <<"m">>, <<"m", "b">>, MapT(StringT, BoolT), NoDft, FALSE, <<>>)
MapBS == Opt(3, <<"k">>, <<"k", "b">>, MapT(BoolT, StringT), NoDft, FALSE, <<>>)

CompositeToks ==
    {DashDash \o SliceB.long \o <<"=">> \o True \o <<Sep1>> \o False,
     DashDash \o SliceB.long \o <<"=">> \o <<"x">>,
     DashDash \o MapSB.long \o <<"=">> \o <<"k">> \o <<Sep2>> \o False,
     DashDash \o MapSB.long \o <<"=">> \o <<"k">> \o <<Sep2>> \o True,
     DashDash \o MapBS.long \o <<"=">> \o False \o <<Sep2>> \o <<"x">>}

SpecComposite ==
    Init /\ [][NextFlat({SliceB, MapSB, MapBS}, CompositeToks, MaxArgs)]_vars

\* tok is --name=value for option o, and the value
Assigns(o, tok) == HasPrefix(tok, DashDash \o o.long \o <<"=">>)
Assigned(o, tok) == SubSeq(tok, Len(o.long) + 4, Len(tok))

IsLiteral(s) == s \in {True, False}

\* C20: a bool decoded as an element of an aligned sequence token, or as
\* the key or the value of a pair of a mapping, is decoded from its text:
\* the text true stores true, the text false stores false, and any other
\* text is a decode error.
C20_CompositeBoolAligned ==
    [][\A tok \in CompositeToks :
          TokenStep(tok) =>
              /\ Assigns(SliceB, tok) /\ InRegistry(SliceB) =>
                     LET es == Split(Assigned(SliceB, tok), Sep1)
                     IN /\ err' = NoErr <=> \A i \in 1..Len(es) : IsLiteral(es[i])
                        /\ err' = NoErr =>
                               mem'[SliceB.ptr] = mem[SliceB.ptr]
                                   \o [i \in 1..Len(es) |-> es[i] = True]
              /\ Assigns(MapSB, tok) /\ InRegistry(MapSB) =>
                     LET kv == Split(Assigned(MapSB, tok), Sep2)
                     IN /\ err' = NoErr <=> IsLiteral(kv[2])
                        /\ err' = NoErr =>
                               /\ kv[1] \in DOMAIN mem'[MapSB.ptr]
                               /\ mem'[MapSB.ptr][kv[1]] = (kv[2] = True)
              /\ Assigns(MapBS, tok) /\ InRegistry(MapBS) =>
                     LET kv == Split(Assigned(MapBS, tok), Sep2)
                     IN /\ err' = NoErr <=> IsLiteral(kv[1])
                        /\ err' = NoErr =>
                               /\ (kv[1] = True) \in DOMAIN mem'[MapBS.ptr]
                               /\ mem'[MapBS.ptr][kv[1] = True] = kv[2]]_vars

----------------------------------------------------------------------------
(* Integer options of every width                                          *)

\* SpecInts: one integer option --i on the root, of any of the eight
\* types, given values at the ends of the ranges of the four widths; a Run
\* gives it one value less than MaxArgs allows tokens
IntTypes ==
    {IntT(w) : w \in {8, 16, 32, 64}} \cup {UintT(w) : w \in {8, 16, 32, 64}}
IntI(t) == Opt(1, <<>>, <<"i">>, t, NoDft, FALSE, 0)

\* the values: the text of the token, its sign, and the integer it is
\* written out (as eight bytes, lowest first, when it is 2^31 or more in
\* size)
IntVals ==
    {
     [text |-> <<"0">>,
      neg |-> FALSE, exact |-> 0],
     [text |-> <<"-", "1">>,
      neg |-> TRUE, exact |-> 0 - 1],
     [text |-> <<"1", "2", "7">>,
      neg |-> FALSE, exact |-> 127],
     [text |-> <<"1", "2", "8">>,
      neg |-> FALSE, exact |-> 128],
     [text |-> <<"-", "1", "2", "8">>,
      neg |-> TRUE, exact |-> 0 - 128],
     [text |-> <<"-", "1", "2", "9">>,
      neg |-> TRUE, exact |-> 0 - 129],
     [text |-> <<"2", "5", "5">>,
      neg |-> FALSE, exact |-> 255],
     [text |-> <<"2", "5", "6">>,
      neg |-> FALSE, exact |-> 256],
     [text |-> <<"3", "2", "7", "6", "7">>,
      neg |-> FALSE, exact |-> 32767],
     [text |-> <<"3", "2", "7", "6", "8">>,
      neg |-> FALSE, exact |-> 32768],
     [text |-> <<"-", "3", "2", "7", "6", "8">>,
      neg |-> TRUE, exact |-> 0 - 32768],
     [text |-> <<"-", "3", "2", "7", "6", "9">>,
      neg |-> TRUE, exact |-> 0 - 32769],
     [text |-> <<"6", "5", "5", "3", "5">>,
      neg |-> FALSE, exact |-> 65535],
     [text |-> <<"6", "5", "5", "3", "6">>,
      neg |-> FALSE, exact |-> 65536],
     [text |-> <<"2", "1", "4", "7", "4", "8", "3", "6", "4", "7">>,
      neg |-> FALSE, exact |-> 2147483647],
     [text |-> <<"2", "1", "4", "7", "4", "8", "3", "6", "4", "8">>,
      neg |-> FALSE, exact |-> <<0, 0, 0, 128, 0, 0, 0, 0>>],
     [text |-> <<"-", "2", "1", "4", "7", "4", "8", "3", "6", "4", "8">>,
      neg |-> TRUE, exact |-> (0 - 2147483647) - 1],
     [text |-> <<"-", "2", "1", "4", "7", "4", "8", "3", "6", "4", "9">>,
      neg |-> TRUE, exact |-> <<255, 255, 255, 127, 255, 255, 255, 255>>],
     [text |-> <<"4", "2", "9", "4", "9", "6", "7", "2", "9", "5">>,
      neg |-> FALSE, exact |-> <<255, 255, 255, 255, 0, 0, 0, 0>>],
     [text |-> <<"4", "2", "9", "4", "9", "6", "7", "2", "9", "6">>,
      neg |-> FALSE, exact |-> <<0, 0, 0, 0, 1, 0, 0, 0>>],
     [text |-> <<"9", "2", "2", "3", "3", "7", "2", "0", "3", "6", "8", "5", "4", "7", "7", "5", "8", "0", "7">>,
      neg |-> FALSE, exact |-> <<255, 255, 255, 255, 255, 255, 255, 127>>],
     [text |-> <<"9", "2", "2", "3", "3", "7", "2", "0", "3", "6", "8", "5", "4", "7", "7", "5", "8", "0", "8">>,
      neg |-> FALSE, exact |-> <<0, 0, 0, 0, 0, 0, 0, 128>>],
     [text |-> <<"-", "9", "2", "2", "3", "3", "7", "2", "0", "3", "6", "8", "5", "4", "7", "7", "5", "8", "0", "8">>,
      neg |-> TRUE, exact |-> <<0, 0, 0, 0, 0, 0, 0, 128>>],
     [text |-> <<"-", "9", "2", "2", "3", "3", "7", "2", "0", "3", "6", "8", "5", "4", "7", "7", "5", "8", "0", "9">>,
      neg |-> TRUE, exact |-> <<255, 255, 255, 255, 255, 255, 255, 127>>],
     [text |-> <<"1", "8", "4", "4", "6", "7", "4", "4", "0", "7", "3", "7", "0", "9", "5", "5", "1", "6", "1", "5">>,
      neg |-> FALSE, exact |-> <<255, 255, 255, 255, 255, 255, 255, 255>>],
     [text |-> <<"1", "8", "4", "4", "6", "7", "4", "4", "0", "7", "3", "7", "0", "9", "5", "5", "1", "6", "1", "6">>,
      neg |-> FALSE, exact |-> <<0, 0, 0, 0, 0, 0, 0, 0>>]
    }

IntTok(r) == DashDash \o <<"i", "=">> \o r.text
IntToks == {IntTok(r) : r \in IntVals}

SpecInts ==
    Init /\ [][NextFlat({IntI(t) : t \in IntTypes}, IntToks, MaxArgs - 1)]_vars

\* the digits of a value, and the order of two strings of digits without
\* leading zeros
Mag(r) == IF r.neg THEN Tail(r.text) ELSE r.text

RECURSIVE DigitsLeq(_, _)
DigitsLeq(a, b) ==
    IF Len(a) # Len(b) THEN Len(a) < Len(b)
    ELSE IF a = <<>> THEN TRUE
    ELSE IF a[1] # b[1] THEN DigitVal(a[1]) < DigitVal(b[1])
    ELSE DigitsLeq(Tail(a), Tail(b))

\* the largest value of a type and the size of its smallest value
MaxOf(t) ==
    IF t.signed
    THEN CASE t.w = 8 -> <<"1", "2", "7">>
           [] t.w = 16 -> <<"3", "2", "7", "6", "7">>
           [] t.w = 32 -> <<"2", "1", "4", "7", "4", "8", "3", "6", "4", "7">>
           [] t.w = 64 -> <<"9", "2", "2", "3", "3", "7", "2", "0", "3", "6", "8", "5", "4", "7", "7", "5", "8", "0", "7">>
    ELSE CASE t.w = 8 -> <<"2", "5", "5">>
           [] t.w = 16 -> <<"6", "5", "5", "3", "5">>
           [] t.w = 32 -> <<"4", "2", "9", "4", "9", "6", "7", "2", "9", "5">>
           [] t.w = 64 -> <<"1", "8", "4", "4", "6", "7", "4", "4", "0", "7", "3", "7", "0", "9", "5", "5", "1", "6", "1", "5">>

MinSizeOf(t) ==
    IF ~t.signed THEN <<"0">>
    ELSE CASE t.w = 8 -> <<"1", "2", "8">>
           [] t.w = 16 -> <<"3", "2", "7", "6", "8">>
           [] t.w = 32 -> <<"2", "1", "4", "7", "4", "8", "3", "6", "4", "8">>
           [] t.w = 64 -> <<"9", "2", "2", "3", "3", "7", "2", "0", "3", "6", "8", "5", "4", "7", "7", "5", "8", "0", "8">>

InRange(r, t) ==
    IF r.neg THEN DigitsLeq(Mag(r), MinSizeOf(t)) ELSE DigitsLeq(Mag(r), MaxOf(t))

\* the token parses as a 64-bit integer of the family of t
Parses64(r, t) ==
    IF t.signed THEN InRange(r, IntT(64)) ELSE ~r.neg /\ InRange(r, UintT(64))

\* the option of the root is an integer option and the token at the cursor
\* gives it the value r
GivesInt(r) ==
    /\ Len(params) = 1
    /\ pc = "parse"
    /\ idx < Len(args)
    /\ args[idx + 1] = IntTok(r)
    /\ TokenStep(IntTok(r))

\* C21: for an integer option of width 8, 16, 32 or 64, signed or not, a
\* token whose value is in the range of the type is stored exactly; a token
\* that parses as a 64-bit integer and is outside the range is an overflow
\* error; and no token outside the range is accepted.
C21_IntWidthChecked ==
    [][\A r \in IntVals :
          GivesInt(r) =>
              LET t == params[1].t
              IN /\ InRange(r, t) => err' = NoErr /\ mem'[1] = r.exact
                 /\ ~InRange(r, t) /\ Parses64(r, t) => err' = ErrOverflow
                 /\ ~InRange(r, t) => err' # NoErr /\ pc' = "done"]_vars

\* --i=128 was given to an int8 option: the parse has failed with the
\* overflow error, and the destination holds the narrowed value
C21_OverflowAtInt8 ==
    /\ pc = "done"
    /\ err = ErrOverflow
    /\ Len(params) = 1
    /\ params[1].t = IntT(8)
    /\ args[idx] = DashDash \o <<"i", "=", "1", "2", "8">>
    /\ mem[1] = 0 - 128

----------------------------------------------------------------------------
(* The command of the context                                              *)

\* C22: during a dispatch the command of the context an interceptor sees is
\* the node the interceptor was registered on, and the command of the
\* context the terminal handler sees is the dispatch target, also when the
\* target has no interceptor of its own and when the tree has none.
C22_ContextIsOwner ==
    \A i \in 1..Len(trace) :
        /\ trace[i].ev = "enter" => trace[i].cmd \in Holders(trace[i].id)
        /\ trace[i].ev = "handler" => trace[i].cmd = cur

----------------------------------------------------------------------------
(* One index of destinations for the whole tree                            *)

\* SpecShared: two options with the same destination and different names,
\* registered on any node of a tree of sub-commands and statement scopes
SharedToks == {Dash \o DupA.short, <<"a">>}

NextShared ==
    \/ \E f \in NodeIds, o \in {DupA, DupPtr} : addVar(f, o) /\ Size' <= MaxRegs
    \/ \E f \in NodeIds, name \in CmdNames : Cmd(f, name, 0) /\ Size' <= MaxRegs
    \/ \E f \in NodeIds : Stmt(f, 0) /\ Size' <= MaxRegs
    \/ \E f \in NodeIds : Handle(f, 0) /\ Size' <= MaxRegs
    \/ \E a \in Lists(SharedToks, MaxArgs) : Run(a)
    \/ ParseToken
    \/ ParseEnd
    \/ Terminal
    \/ Return

SpecShared == Init /\ [][NextShared]_vars

\* the options of the tree bound to destination ptr, on whatever node
BoundTo(ptr) == {pid \in 1..Len(params) : params[pid].ptr = ptr}

----------------------------------------------------------------------------
(* The cursor and the end of parse                                         *)

\* SpecCursor: an int option with names and an int option without, on any
\* node of a tree of sub-commands named a, with statement scopes of the
\* root; Run is
\* a sequential call, so once it is made each turn of the loop of _parse
\* and the return of _parse take place
CursorToks == {Dash \o IntN.short, <<"1">>, <<"a">>}

NextCursor ==
    \/ \E f \in NodeIds, o \in {IntN, PosI} : addVar(f, o) /\ Size' <= MaxRegs
    \/ \E f \in NodeIds : Cmd(f, <<"a">>, 0) /\ Size' <= MaxRegs
    \/ Stmt(1, 0) /\ Size' <= MaxRegs
    \/ \E f \in NodeIds : Handle(f, 0) /\ Size' <= MaxRegs
    \/ \E a \in Lists(CursorToks, MaxArgs) : Run(a)
    \/ ParseToken
    \/ ParseEnd
    \/ Terminal
    \/ Return

\* ParseToken is enabled exactly when _parse is running and a token is left
\* (_parse gives a state for every token), ParseEnd when none is left
TokenLeft == pc = "parse" /\ idx < Len(args)

\* weak fairness of ParseToken, with its enabling condition written out,
\* and weak fairness of ParseEnd
SpecCursor ==
    /\ Init /\ [][NextCursor]_vars
    /\ ([]<>~TokenLeft \/ []<><<ParseToken>>_vars)
    /\ WF_vars(ParseEnd)

\* the node whose cmds holds c, and the number of sub-command matches that
\* lead from the root to f
Above(c) == CHOOSE g \in NodeIds : Contains(nodes[g].cmds, c)

RECURSIVE Hops(_)
Hops(f) == IF f = 1 THEN 0 ELSE 1 + Hops(Above(f))

\* what end, next and the index after next give at position i of the input
ReadAt(i) ==
    LET a == newArgs(args, i)
    IN IF i >= Len(args)
       THEN end(a) /\ next(a) = <<>> /\ advance(a) = i
       ELSE ~end(a) /\ next(a) = args[i + 1] /\ advance(a) = i + 1

\* C24: parsing ends, and with one outcome: a node to dispatch to and no
\* error, or an error.  The index of the cursor never decreases and never
\* exceeds the number of tokens, every turn of the router consumes at least
\* one token, a read at the end of the cursor gives the empty string and
\* leaves the index alone, and the nodes entered number at most one plus
\* the tokens consumed.
C24_ParseTerminates ==
    /\ [](/\ idx \in 0..Len(args)
          /\ 1 + Hops(cur) <= 1 + idx
          /\ \A i \in 0..Len(args) : ReadAt(i))
    /\ [][/\ idx' >= idx
          /\ pc = "parse" /\ idx < Len(args) => idx' > idx
          /\ cur' # cur => idx' > idx
          /\ pc = "parse" /\ pc' # "parse" =>
                \/ pc' = "call" /\ err' = NoErr /\ idx' = Len(args)
                \/ pc' = "done" /\ err' # NoErr]_vars
    /\ (pc = "parse") ~> (pc \in {"call", "done"})

\* a: a -n has been run on a tree whose root has the sub-command a, which
\* has inherited the int option: the child was entered with the first
\* token, and the option met the end of the cursor
C24_ValueReadAtEnd ==
    /\ pc = "done"
    /\ args = <<<<"a">>, Dash \o IntN.short>>
    /\ cur # 1
    /\ Hops(cur) = 1
    /\ idx = Len(args)
    /\ err = ErrNoInputValue

====
